---- MODULE Spec2Model ----
(***************************************************************************)
(* Model of the Dr. Davinci backend: the in-memory login rate limiter, the *)
(* auth routes (signup, login) and the chat-history routes over the three  *)
(* SQLite tables users, chat_sessions and messages.                        *)
(*                                                                         *)
(* Strings that the code inspects character by character (usernames,       *)
(* emails, passwords, JSON text) are sequences of one-character strings.   *)
(* Handlers that await the store more than once while other requests can   *)
(* change what they read (signup, login) are split at their awaits; a      *)
(* request lives in a slot of req from its start to its response.          *)
(***************************************************************************)
EXTENDS Integers, Sequences, FiniteSets, TLC

VARIABLES users, sessions, messages, saved, loginAttempts, now, req, calls, idCtr,
          compared

vars == <<users, sessions, messages, saved, loginAttempts, now, req, calls, idCtr,
         compared>>

(***************************************************************************)
(* Bounds of the model.                                                    *)
(***************************************************************************)
MaxTicks == 3
MaxCalls == 7
MaxIds == 2
MaxUsers == 2
MaxHistTicks == 1

(***************************************************************************)
(* Characters and strings.                                                 *)
(***************************************************************************)
UpperSeq == <<"A","B","C","D","E","F","G","H","I","J","K","L","M",
              "N","O","P","Q","R","S","T","U","V","W","X","Y","Z">>
LowerSeq == <<"a","b","c","d","e","f","g","h","i","j","k","l","m",
              "n","o","p","q","r","s","t","u","v","w","x","y","z">>
UpperChars == {UpperSeq[i] : i \in 1..26}
LowerChars == {LowerSeq[i] : i \in 1..26}
DigitChars == {"0","1","2","3","4","5","6","7","8","9"}
SpaceChars == {" ", "\t", "\n"}

\* SQLite LOWER() folds the 26 ASCII capitals and leaves every other character.
LowerChar(c) ==
  IF c \in UpperChars
    THEN LowerSeq[CHOOSE i \in 1..26 : UpperSeq[i] = c]
    ELSE c

LOWER(s) == [i \in 1..Len(s) |-> LowerChar(s[i])]

\* JavaScript truthiness of a request string: absent and "" are both falsy.
Falsy(s) == Len(s) = 0

\* /^[^\s@]+@[^\s@]+\.[^\s@]+$/
emailRegex(s) ==
  \E p \in 1..Len(s), q \in 1..Len(s) :
    /\ s[p] = "@"
    /\ s[q] = "."
    /\ 1 < p
    /\ p + 1 < q
    /\ q < Len(s)
    /\ \A i \in 1..Len(s) : i # p => s[i] \notin (SpaceChars \cup {"@"})

\* /^[a-zA-Z0-9_-]+$/
usernameRegex(s) ==
  /\ Len(s) > 0
  /\ \A i \in 1..Len(s) :
       s[i] \in (LowerChars \cup UpperChars \cup DigitChars \cup {"_", "-"})

HasLower(s) == \E i \in 1..Len(s) : s[i] \in LowerChars
HasUpper(s) == \E i \in 1..Len(s) : s[i] \in UpperChars
HasDigit(s) == \E i \in 1..Len(s) : s[i] \in DigitChars

\* bcrypt: the hash determines which password it accepts and nothing else.
bcryptHash(p) == [alg |-> "bcrypt", of |-> p]
bcryptCompare(p, h) == h.of = p

(***************************************************************************)
(* The rate limiter (auth.ts).                                             *)
(***************************************************************************)
RATE_LIMIT_ATTEMPTS == 5
RATE_LIMIT_WINDOW == 15 * 60 * 1000

NoAttempt == [count |-> 0, timestamp |-> 0 - 1]

\* checkRateLimit with the window closed one millisecond early (>= for >).
checkRateLimit_ClosesEarly(la, identifier, t) ==
  LET attempt == la[identifier] IN
    IF attempt = NoAttempt \/ t - attempt.timestamp >= RATE_LIMIT_WINDOW
      THEN [allowed |-> TRUE,
            map |-> [la EXCEPT ![identifier] = [count |-> 1, timestamp |-> t]]]
    ELSE IF attempt.count >= RATE_LIMIT_ATTEMPTS
      THEN [allowed |-> FALSE, map |-> la]
    ELSE [allowed |-> TRUE,
          map |-> [la EXCEPT ![identifier].count = attempt.count + 1]]

\* checkRateLimit(identifier) called at time t with the map la: what it returns
\* and the map it leaves.
checkRateLimit(la, identifier, t) ==
  LET attempt == la[identifier] IN
    IF attempt = NoAttempt
      THEN [allowed |-> TRUE,
            map |-> [la EXCEPT ![identifier] = [count |-> 1, timestamp |-> t]]]
    ELSE IF t - attempt.timestamp > RATE_LIMIT_WINDOW
      THEN [allowed |-> TRUE,
            map |-> [la EXCEPT ![identifier] = [count |-> 1, timestamp |-> t]]]
    ELSE IF attempt.count >= RATE_LIMIT_ATTEMPTS
      THEN [allowed |-> FALSE, map |-> la]
    ELSE [allowed |-> TRUE,
          map |-> [la EXCEPT ![identifier].count = attempt.count + 1]]

(***************************************************************************)
(* Request values the specifications draw from.                            *)
(***************************************************************************)
sEmpty == << >>
sAlice == <<"A","l","i","c","e">>
salice == <<"a","l","i","c","e">>
sbob == <<"b","o","b">>
sab == <<"a","b">>
sa_b == <<"a"," ","b">>
sName == <<"N">>
sShort1A == <<"s","h","o","r","t","1","A">>
sAlllowercase1 == <<"a","l","l","l","o","w","e","r","c","a","s","e","1">>
sNoDigitsHere == <<"N","o","D","i","g","i","t","s","H","e","r","e">>
sValid123 == <<"V","a","l","i","d","1","2","3">>
sOther456 == <<"O","t","h","e","r","4","5","6">>
sNoDot == <<"a","@","x">>
sMailA == <<"A","@","x",".","i","o">>
sMaila == <<"a","@","x",".","i","o">>
sMailb == <<"b","@","x",".","i","o">>

Tokens == {"t1", "t2"}
Reqs == {1, 2}

SignupUsernames == {sEmpty, sab, sa_b, sAlice, salice, sbob}
SignupPasswords == {sShort1A, sAlllowercase1, sNoDigitsHere, sValid123}
SignupNames == {sEmpty, sName}
SignupEmails == {sNoDot, sMailA, sMaila, sMailb}

SignupBodies ==
  [username : SignupUsernames, password : SignupPasswords,
   name : SignupNames, email : SignupEmails]

\* Well-formed signups only: the requests that race in SpecConc.
ValidSignupBodies ==
  [username : {sAlice, salice, sbob}, password : {sValid123},
   name : {sName}, email : {sMailA, sMaila, sMailb}]

LoginNames == {sEmpty, sAlice, sbob}
LoginPasswords == {sEmpty, sValid123, sOther456}
LoginBodies == [username : LoginNames, password : LoginPasswords]

\* The keys the map loginAttempts can hold in this model.
Identifiers == {sAlice, salice, sbob}

(***************************************************************************)
(* Request slots and responses.                                            *)
(***************************************************************************)
NoRow == [id |-> 0]
NoBody == [username |-> sEmpty]

Idle ==
  [op |-> "none", pc |-> "idle", in |-> NoBody, row |-> NoRow,
   reads |-> 0, verified |-> FALSE, status |-> 0, error |-> "", out |-> NoRow,
   pre |-> {}]

\* A request of operation op with body b that waits at program point pc.
InFlight(op, pc, b) == [Idle EXCEPT !.op = op, !.pc = pc, !.in = b]

\* res.status(code).json({ error }); pre records the users table as the step
\* that responds found it.
Failed(slot, code, msg) ==
  [slot EXCEPT !.pc = "done", !.status = code, !.error = msg, !.pre = users]

\* res.status(code).json(payload)
Replied(slot, code, payload) ==
  [slot EXCEPT !.pc = "done", !.status = code, !.out = payload, !.pre = users]

Free(r) == req[r].pc \in {"idle", "done"}

\* UserResponse: the public projection of a user row.
UserResponse(u) ==
  [id |-> u.id, username |-> u.username, name |-> u.name, email |-> u.email]

(***************************************************************************)
(* The store: constraints of the schema (database.ts).                     *)
(***************************************************************************)
\* SQLite enforces FOREIGN KEY clauses only on a connection that has run
\* PRAGMA foreign_keys = ON; the connection is opened and configured without it.
ForeignKeysEnabled == FALSE

\* username TEXT UNIQUE, email TEXT UNIQUE: the default BINARY collation.
UsersUniqueViolated(us, row) ==
  \E u \in us :
    \/ u.id = row.id
    \/ u.username = row.username
    \/ u.email = row.email

(***************************************************************************)
(* Signup (auth.ts).                                                       *)
(***************************************************************************)
\* signupValidation with the password's length checked before the username.
signupValidation_PasswordFirst(b) ==
  IF Falsy(b.username) \/ Falsy(b.password) \/ Falsy(b.name) \/ Falsy(b.email)
    THEN "Missing required fields"
  ELSE IF ~emailRegex(b.email)
    THEN "Invalid email format"
  ELSE IF Len(b.password) < 8
    THEN "Password must be at least 8 characters"
  ELSE IF Len(b.username) < 3
    THEN "Username must be at least 3 characters"
  ELSE IF ~usernameRegex(b.username)
    THEN "Username can only contain letters, numbers, underscores, and hyphens"
  ELSE IF ~HasLower(b.password) \/ ~HasUpper(b.password)
    THEN "Password must contain uppercase and lowercase letters"
  ELSE IF ~HasDigit(b.password)
    THEN "Password must contain at least one number"
  ELSE ""

\* The checks of the request body in the order the handler makes them: the
\* error of the first that fails, "" when all pass.
signupValidation(b) ==
  IF Falsy(b.username) \/ Falsy(b.password) \/ Falsy(b.name) \/ Falsy(b.email)
    THEN "Missing required fields"
  ELSE IF ~emailRegex(b.email)
    THEN "Invalid email format"
  ELSE IF Len(b.username) < 3
    THEN "Username must be at least 3 characters"
  ELSE IF ~usernameRegex(b.username)
    THEN "Username can only contain letters, numbers, underscores, and hyphens"
  ELSE IF Len(b.password) < 8
    THEN "Password must be at least 8 characters"
  ELSE IF ~HasLower(b.password) \/ ~HasUpper(b.password)
    THEN "Password must contain uppercase and lowercase letters"
  ELSE IF ~HasDigit(b.password)
    THEN "Password must contain at least one number"
  ELSE ""

\* The username lookup without LOWER(): an exact comparison.
UsernameTaken_Exact(us, name) == \E u \in us : u.username = name

\* SELECT id FROM users WHERE LOWER(username) = LOWER(?)
UsernameTaken(us, name) == \E u \in us : LOWER(u.username) = LOWER(name)

\* SELECT id FROM users WHERE LOWER(email) = LOWER(?)
EmailTaken(us, email) == \E u \in us : LOWER(u.email) = LOWER(email)

\* Lines 62-94: the body is read and validated before the first await.
SignupStart(r, b) ==
  /\ Free(r)
  /\ Cardinality(users) < MaxUsers
  /\ req' = [req EXCEPT ![r] =
               IF signupValidation(b) # ""
                 THEN Failed(InFlight("signup", "su_start", b), 400,
                             signupValidation(b))
                 ELSE InFlight("signup", "su_username", b)]
  /\ UNCHANGED <<users, sessions, messages, saved, loginAttempts, now, calls, idCtr, compared>>

\* Lines 96-104.
SignupCheckUsername(r) ==
  /\ req[r].op = "signup"
  /\ req[r].pc = "su_username"
  /\ req' = [req EXCEPT ![r] =
               IF UsernameTaken(users, req[r].in.username)
                 THEN Failed([@ EXCEPT !.reads = @ + 1], 409,
                             "Username already exists")
                 ELSE [@ EXCEPT !.pc = "su_email", !.reads = @ + 1]]
  /\ UNCHANGED <<users, sessions, messages, saved, loginAttempts, now, calls, idCtr, compared>>

\* Lines 106-114.
SignupCheckEmail(r) ==
  /\ req[r].op = "signup"
  /\ req[r].pc = "su_email"
  /\ req' = [req EXCEPT ![r] =
               IF EmailTaken(users, req[r].in.email)
                 THEN Failed([@ EXCEPT !.reads = @ + 1], 409,
                             "Email already registered")
                 ELSE [@ EXCEPT !.pc = "su_insert", !.reads = @ + 1]]
  /\ UNCHANGED <<users, sessions, messages, saved, loginAttempts, now, calls, idCtr, compared>>

\* Lines 116-142: hash, fresh id and token (one of tokens), INSERT; a
\* constraint error of the store is caught and answered with 500.
SignupInsert(r, tokens) ==
  /\ req[r].op = "signup"
  /\ req[r].pc = "su_insert"
  /\ \E token \in tokens :
       LET b == req[r].in
           row == [id |-> idCtr + 1, username |-> b.username,
                   password_hash |-> bcryptHash(b.password), name |-> b.name,
                   email |-> b.email, auth_token |-> token,
                   last_login |-> 0 - 1]
       IN  IF UsersUniqueViolated(users, row)
             THEN /\ req' = [req EXCEPT ![r] = Failed(@, 500, "Signup failed")]
                  /\ users' = users
                  /\ idCtr' = idCtr
             ELSE /\ req' = [req EXCEPT ![r] =
                               Replied(@, 201, [user |-> UserResponse(row),
                                                token |-> token])]
                  /\ users' = users \cup {row}
                  /\ idCtr' = idCtr + 1
  /\ UNCHANGED <<sessions, messages, saved, loginAttempts, now, calls, compared>>

(***************************************************************************)
(* Login (auth.ts).                                                        *)
(***************************************************************************)
\* The start of login with the user looked up before the limiter is asked.
LoginStart_StoreFirst(r, b) ==
  /\ Free(r)
  /\ IF Falsy(b.username) \/ Falsy(b.password)
       THEN /\ req' = [req EXCEPT ![r] =
                         Failed(InFlight("login", "li_start", b), 400,
                                "Missing username or password")]
            /\ loginAttempts' = loginAttempts
       ELSE LET rl == checkRateLimit(loginAttempts, b.username, now)
                found == {u \in users : LOWER(u.username) = LOWER(b.username)}
                slot == [InFlight("login", "li_start", b) EXCEPT !.reads = 1]
            IN
              /\ loginAttempts' = rl.map
              /\ \E u \in (IF found = {} THEN {NoRow} ELSE found) :
                   req' = [req EXCEPT ![r] =
                             IF ~rl.allowed
                               THEN Failed(slot, 429,
                                      "Too many login attempts. Please try again later.")
                             ELSE IF found = {}
                               THEN Failed(slot, 401, "Invalid credentials")
                             ELSE [slot EXCEPT !.pc = "li_compare", !.row = u]]
  /\ UNCHANGED <<users, sessions, messages, saved, now, calls, idCtr, compared>>

\* Lines 148-157: missing fields, then the rate limit on the raw username.
LoginStart(r, b) ==
  /\ Free(r)
  /\ IF Falsy(b.username) \/ Falsy(b.password)
       THEN /\ req' = [req EXCEPT ![r] =
                         Failed(InFlight("login", "li_start", b), 400,
                                "Missing username or password")]
            /\ loginAttempts' = loginAttempts
       ELSE LET rl == checkRateLimit(loginAttempts, b.username, now) IN
              /\ loginAttempts' = rl.map
              /\ req' = [req EXCEPT ![r] =
                           IF rl.allowed
                             THEN InFlight("login", "li_find", b)
                             ELSE Failed(InFlight("login", "li_start", b), 429,
                                    "Too many login attempts. Please try again later.")]
  /\ UNCHANGED <<users, sessions, messages, saved, now, calls, idCtr, compared>>

\* The lookup of login answering an unknown username with its own message.
LoginFind_Enumerates(r) ==
  /\ req[r].op = "login"
  /\ req[r].pc = "li_find"
  /\ LET found == {u \in users : LOWER(u.username) = LOWER(req[r].in.username)} IN
       IF found = {}
         THEN req' = [req EXCEPT ![r] =
                        Failed([@ EXCEPT !.reads = @ + 1], 401, "User not found")]
         ELSE \E u \in found :
                req' = [req EXCEPT ![r] =
                          [@ EXCEPT !.pc = "li_compare", !.row = u, !.reads = @ + 1]]
  /\ UNCHANGED <<users, sessions, messages, saved, loginAttempts, now, calls, idCtr, compared>>

\* Lines 159-167: SELECT * FROM users WHERE LOWER(username) = LOWER(?); the
\* store returns one of the matching rows.
LoginFind(r) ==
  /\ req[r].op = "login"
  /\ req[r].pc = "li_find"
  /\ LET found == {u \in users : LOWER(u.username) = LOWER(req[r].in.username)} IN
       IF found = {}
         THEN req' = [req EXCEPT ![r] =
                        Failed([@ EXCEPT !.reads = @ + 1], 401, "Invalid credentials")]
         ELSE \E u \in found :
                req' = [req EXCEPT ![r] =
                          [@ EXCEPT !.pc = "li_compare", !.row = u, !.reads = @ + 1]]
  /\ UNCHANGED <<users, sessions, messages, saved, loginAttempts, now, calls, idCtr, compared>>

\* Lines 169-174. compared notes, when logged, the account and the time of
\* each bcrypt.compare.
LoginCompare(r, logged) ==
  /\ req[r].op = "login"
  /\ req[r].pc = "li_compare"
  /\ req' = [req EXCEPT ![r] =
               IF bcryptCompare(req[r].in.password, req[r].row.password_hash)
                 THEN [@ EXCEPT !.pc = "li_update", !.verified = TRUE]
                 ELSE Failed([@ EXCEPT !.verified = TRUE], 401, "Invalid credentials")]
  /\ compared' = IF logged
                   THEN Append(compared, [id |-> req[r].row.id, at |-> now])
                   ELSE compared
  /\ UNCHANGED <<users, sessions, messages, saved, loginAttempts, now, calls, idCtr>>

\* Lines 176-197: UPDATE users SET auth_token, token_expiry, last_login WHERE id.
LoginUpdate(r) ==
  /\ req[r].op = "login"
  /\ req[r].pc = "li_update"
  /\ \E token \in Tokens :
       /\ users' = {IF u.id = req[r].row.id
                      THEN [u EXCEPT !.auth_token = token, !.last_login = now]
                      ELSE u : u \in users}
       /\ req' = [req EXCEPT ![r] =
                    Replied(@, 200, [user |-> UserResponse(req[r].row),
                                     token |-> token])]
  /\ UNCHANGED <<sessions, messages, saved, loginAttempts, now, calls, idCtr, compared>>

(***************************************************************************)
(* The clock, and bare calls of the rate limiter.                          *)
(***************************************************************************)
TickMs == RATE_LIMIT_WINDOW \div 2

\* Date.now() moves on between two steps, up to max steps.
Tick(max) ==
  /\ now < max * TickMs
  /\ now' = now + TickMs
  /\ UNCHANGED <<users, sessions, messages, saved, loginAttempts, req, calls, idCtr, compared>>

RateIdentifiers == {salice, sbob}

\* checkRateLimit(identifier) at the current time; calls logs the call.
RateCall(identifier) ==
  /\ Len(calls) < MaxCalls
  /\ LET rl == checkRateLimit(loginAttempts, identifier, now) IN
       /\ loginAttempts' = rl.map
       /\ calls' = Append(calls, [id |-> identifier, t |-> now,
                                  allowed |-> rl.allowed])
  /\ UNCHANGED <<users, sessions, messages, saved, now, req, idCtr, compared>>

(***************************************************************************)
(* JSON values of the three optional message fields (history.ts).          *)
(* A value is a tag and its strings: an array of strings, an object of     *)
(* string members (key, value, key, value, ...), a number (its digits), or *)
(* nothing at all (the field was omitted).                                 *)
(***************************************************************************)
Absent == [t |-> "absent", items |-> << >>]
ParseError == [t |-> "error", items |-> << >>]
JArr(items) == [t |-> "arr", items |-> items]
JObj(items) == [t |-> "obj", items |-> items]
JNum(digits) == [t |-> "num", items |-> <<digits>>]

\* JavaScript truthiness: arrays and objects are truthy, also when empty; the
\* number 0 and an omitted field are falsy.
Truthy(v) ==
  CASE v.t = "arr" -> TRUE
    [] v.t = "obj" -> TRUE
    [] v.t = "num" -> v.items[1] # <<"0">>
    [] OTHER -> FALSE

RECURSIVE Escaped(_)
\* The characters of a string as JSON.stringify writes them between quotes.
Escaped(str) ==
  IF str = << >> THEN << >>
  ELSE (IF Head(str) \in {"\"", "\\"} THEN <<"\\", Head(str)>> ELSE <<Head(str)>>)
       \o Escaped(Tail(str))

Quoted(str) == <<"\"">> \o Escaped(str) \o <<"\"">>

RECURSIVE Joined(_, _)
\* The strings of items, quoted, with the k-th separator of an array (",") or
\* of an object (":" after a key, "," after a value) between them.
Joined(items, tag) ==
  IF items = << >> THEN << >>
  ELSE IF Len(items) = 1 THEN Quoted(items[1])
  ELSE Joined(SubSeq(items, 1, Len(items) - 1), tag)
       \o (IF tag = "obj" /\ Len(items) % 2 = 0 THEN <<":">> ELSE <<",">>)
       \o Quoted(items[Len(items)])

\* JSON.stringify(v)
JSONstringify(v) ==
  CASE v.t = "arr" -> <<"[">> \o Joined(v.items, "arr") \o <<"]">>
    [] v.t = "obj" -> <<"{">> \o Joined(v.items, "obj") \o <<"}">>
    [] v.t = "num" -> v.items[1]

RECURSIVE ReadChars(_, _, _)
\* Reads the characters of a quoted string of text from position j, after the
\* opening quote: the string and the position after its closing quote.
ReadChars(text, j, acc) ==
  IF j > Len(text) THEN [ok |-> FALSE, val |-> acc, next |-> j]
  ELSE IF text[j] = "\"" THEN [ok |-> TRUE, val |-> acc, next |-> j + 1]
  ELSE IF text[j] = "\\"
    THEN IF j + 1 > Len(text) THEN [ok |-> FALSE, val |-> acc, next |-> j]
         ELSE ReadChars(text, j + 2, Append(acc, text[j + 1]))
  ELSE ReadChars(text, j + 1, Append(acc, text[j]))

RECURSIVE ReadItems(_, _, _, _)
\* Reads the quoted strings of an array or object of text from position i.
ReadItems(text, i, tag, acc) ==
  IF i > Len(text) \/ text[i] # "\"" THEN ParseError
  ELSE LET str == ReadChars(text, i + 1, << >>)
           got == Append(acc, str.val)
           sep == IF tag = "obj" /\ Len(got) % 2 = 1 THEN ":" ELSE ","
           close == IF tag = "obj" THEN "}" ELSE "]"
       IN  IF ~str.ok \/ str.next > Len(text) THEN ParseError
           ELSE IF text[str.next] = close /\ sep = ","
             THEN IF str.next = Len(text) THEN [t |-> tag, items |-> got]
                  ELSE ParseError
           ELSE IF text[str.next] = sep
             THEN ReadItems(text, str.next + 1, tag, got)
           ELSE ParseError

\* JSON.parse(text)
JSONparse(text) ==
  IF text = << >> THEN ParseError
  ELSE IF text = <<"[", "]">> THEN JArr(<< >>)
  ELSE IF text = <<"{", "}">> THEN JObj(<< >>)
  ELSE IF text[1] = "[" THEN ReadItems(text, 2, "arr", << >>)
  ELSE IF text[1] = "{" THEN ReadItems(text, 2, "obj", << >>)
  ELSE IF \A i \in 1..Len(text) : text[i] \in DigitChars THEN JNum(text)
  ELSE ParseError

\* NULL in a TEXT column; no JSON text is empty.
SqlNull == << >>

\* extractedSymptoms ? JSON.stringify(extractedSymptoms) : null
StoredJson(v) == IF Truthy(v) THEN JSONstringify(v) ELSE SqlNull

\* The stored text handed back as it is, a JSON string, instead of parsed.
ParsedJson_Raw(text) ==
  IF Len(text) > 0 THEN [t |-> "str", items |-> <<text>>] ELSE Absent

\* msg.extracted_symptoms ? JSON.parse(msg.extracted_symptoms) : undefined
ParsedJson(text) == IF Len(text) > 0 THEN JSONparse(text) ELSE Absent

\* A message row as getSession and listSessions return it.
parsedMessage(msg) ==
  [msg EXCEPT !.extracted_symptoms = ParsedJson(@),
              !.grounding_sources = ParsedJson(@),
              !.analysis_results = ParsedJson(@)]

(***************************************************************************)
(* History routes (history.ts). Each handler is one step: no claim depends *)
(* on what another request does between its awaits. The order of the rows  *)
(* in a response is not modelled: a listing is the set of its rows.        *)
(***************************************************************************)
\* An identifier that no row has.
GhostId == 99

\* The identifier a client chooses for its message.
ClientMessageId == 101

sFever == <<"f","e","v","e","r">>
sCough == <<"c","o","u","g","h">>
sQuoteComma == <<"\"", ",">>
sK == <<"k">>
sV == <<"v">>

\* The session and user identifiers requests name: those of rows, those that
\* rows refer to, and one that nothing has. Messages are saved under the
\* sessions that exist or that a message row still names after a delete.
KnownSessionIds ==
  {x.id : x \in sessions} \cup {m.session_id : m \in messages}

SessionIdInputs == KnownSessionIds \cup {GhostId}

UserIdInputs ==
  {u.id : u \in users} \cup {x.user_id : x \in sessions} \cup {GhostId}

\* Bodies of POST /message for session sid (messageId 0: none given).
MessageBodiesFor(sid) ==
  { [sessionId |-> sid, role |-> "user", content |-> "hi", imageUrl |-> "",
     extractedSymptoms |-> JArr(<<sFever, sCough>>), groundingSources |-> Absent,
     analysisResults |-> Absent, messageId |-> ClientMessageId],
    [sessionId |-> sid, role |-> "assistant", content |-> "edit", imageUrl |-> "img",
     extractedSymptoms |-> Absent, groundingSources |-> JArr(<<sQuoteComma>>),
     analysisResults |-> JObj(<<sK, sV>>), messageId |-> ClientMessageId],
    [sessionId |-> sid, role |-> "user", content |-> "hi", imageUrl |-> "",
     extractedSymptoms |-> JNum(<<"0">>), groundingSources |-> Absent,
     analysisResults |-> JArr(<< >>), messageId |-> 0],
    [sessionId |-> sid, role |-> "user", content |-> "", imageUrl |-> "",
     extractedSymptoms |-> Absent, groundingSources |-> Absent,
     analysisResults |-> Absent, messageId |-> 0] }

MessageBodies == UNION {MessageBodiesFor(sid) : sid \in KnownSessionIds}

SessionTitles == {""}

\* FOREIGN KEY (user_id) REFERENCES users(id): violated by a row of
\* chat_sessions whose user is missing, when the store enforces it.
SessionForeignKeyViolated(row) ==
  ForeignKeysEnabled /\ ~\E u \in users : u.id = row.user_id

\* FOREIGN KEY (session_id) REFERENCES chat_sessions(id), likewise.
MessageForeignKeyViolated(row) ==
  ForeignKeysEnabled /\ ~\E x \in sessions : x.id = row.session_id

\* ON DELETE CASCADE: the messages left when the sessions gone are deleted.
MessagesAfterDelete(gone) ==
  IF ForeignKeysEnabled
    THEN {m \in messages : m.session_id \notin {x.id : x \in gone}}
    ELSE messages

\* POST /session. The column created_at, which no handler reads or changes
\* after the INSERT, is left out of the row.
CreateSession(r, userId, title) ==
  /\ Free(r)
  /\ idCtr < MaxIds
  /\ LET b == [userId |-> userId, title |-> title]
         row == [id |-> idCtr + 1, user_id |-> userId,
                 title |-> IF title = "" THEN "New Consultation" ELSE title,
                 updated_at |-> now]
     IN  IF userId = 0
           THEN /\ req' = [req EXCEPT ![r] =
                             Failed(InFlight("createSession", "start", b), 400,
                                    "Missing userId")]
                /\ UNCHANGED <<sessions, idCtr>>
         ELSE IF SessionForeignKeyViolated(row)
           THEN /\ req' = [req EXCEPT ![r] =
                             Failed(InFlight("createSession", "start", b), 500,
                                    "Failed to create session")]
                /\ UNCHANGED <<sessions, idCtr>>
         ELSE /\ sessions' = sessions \cup {row}
              /\ idCtr' = idCtr + 1
              /\ req' = [req EXCEPT ![r] =
                           Replied(InFlight("createSession", "start", b), 201,
                                   [session |-> row, messages |-> {}])]
  /\ UNCHANGED <<users, messages, saved, loginAttempts, now, calls, compared>>

\* The row that POST /message writes for body b under identifier id.
MessageRow(b, id) ==
  [id |-> id, session_id |-> b.sessionId, role |-> b.role, content |-> b.content,
   image_url |-> b.imageUrl,
   extracted_symptoms |-> StoredJson(b.extractedSymptoms),
   grounding_sources |-> StoredJson(b.groundingSources),
   analysis_results |-> StoredJson(b.analysisResults),
   timestamp |-> now]

\* The messages table were the INSERT to succeed whatever the table holds.
MessagesAfterSave_AlwaysInserts(row) == messages \cup {row}

\* The messages table after INSERT of row, or after the UPDATE ... WHERE id
\* that follows when the INSERT fails on a constraint.
MessagesAfterSave(row) ==
  IF (\E m \in messages : m.id = row.id) \/ MessageForeignKeyViolated(row)
    THEN {IF m.id = row.id
            THEN [row EXCEPT !.session_id = m.session_id]
            ELSE m : m \in messages}
    ELSE messages \cup {row}

\* POST /message. saved notes, for each message identifier, the three values
\* its last request gave.
SaveMessage(r, b) ==
  /\ Free(r)
  /\ b.messageId = 0 => idCtr < MaxIds
  /\ IF b.sessionId = 0 \/ b.role = "" \/ b.content = ""
       THEN /\ req' = [req EXCEPT ![r] =
                         Failed(InFlight("saveMessage", "start", b), 400,
                                "Missing required fields")]
            /\ UNCHANGED <<sessions, messages, saved, idCtr>>
       ELSE LET id == IF b.messageId # 0 THEN b.messageId ELSE idCtr + 1
                row == MessageRow(b, id)
            IN  /\ messages' = MessagesAfterSave(row)
                /\ sessions' = {IF x.id = b.sessionId
                                  THEN [x EXCEPT !.updated_at = now]
                                  ELSE x : x \in sessions}
                /\ saved' = {g \in saved : g.id # id} \cup
                              {[id |-> id,
                                extracted_symptoms |-> b.extractedSymptoms,
                                grounding_sources |-> b.groundingSources,
                                analysis_results |-> b.analysisResults]}
                /\ idCtr' = IF b.messageId # 0 THEN idCtr ELSE idCtr + 1
                /\ req' = [req EXCEPT ![r] =
                             Replied(InFlight("saveMessage", "start", b), 201,
                                     [message |-> row])]
  /\ UNCHANGED <<users, loginAttempts, now, calls, compared>>

\* DELETE /session/:sessionId
DeleteSession(r, sessionId) ==
  /\ Free(r)
  /\ LET gone == {x \in sessions : x.id = sessionId} IN
       /\ sessions' = sessions \ gone
       /\ messages' = MessagesAfterDelete(gone)
       /\ req' = [req EXCEPT ![r] =
                    Replied(InFlight("deleteSession", "start",
                                     [sessionId |-> sessionId]), 200,
                            [success |-> TRUE, deleted |-> {x.id : x \in gone}])]
  /\ UNCHANGED <<users, saved, loginAttempts, now, calls, idCtr, compared>>

\* DELETE /user/:userId; deleted notes the sessions the statement removed.
ClearUserData(r, userId) ==
  /\ Free(r)
  /\ LET gone == {x \in sessions : x.user_id = userId} IN
       /\ sessions' = sessions \ gone
       /\ messages' = MessagesAfterDelete(gone)
       /\ req' = [req EXCEPT ![r] =
                    Replied(InFlight("clearUserData", "start",
                                     [userId |-> userId]), 200,
                            [success |-> TRUE, deleted |-> {x.id : x \in gone}])]
  /\ UNCHANGED <<users, saved, loginAttempts, now, calls, idCtr, compared>>

\* SELECT * FROM messages WHERE session_id = ?, each row with its JSON parsed.
MessagesOf(sessionId) ==
  {parsedMessage(m) : m \in {n \in messages : n.session_id = sessionId}}

\* JSON.parse threw on a stored text of one of the rows.
ParseFailed(rows) ==
  \E m \in rows :
    ParseError \in {m.extracted_symptoms, m.grounding_sources, m.analysis_results}

\* GET /session/:sessionId
GetSession(r, sessionId) ==
  /\ Free(r)
  /\ LET slot == InFlight("getSession", "start", [sessionId |-> sessionId])
         found == {x \in sessions : x.id = sessionId}
     IN  req' = [req EXCEPT ![r] =
                   IF found = {}
                     THEN Failed(slot, 404, "Session not found")
                   ELSE IF ParseFailed(MessagesOf(sessionId))
                     THEN Failed(slot, 500, "Failed to fetch session")
                   ELSE Replied(slot, 200,
                                [session |-> CHOOSE x \in found : TRUE,
                                 messages |-> MessagesOf(sessionId)])]
  /\ UNCHANGED <<users, sessions, messages, saved, loginAttempts, now, calls, idCtr, compared>>

\* GET /sessions/:userId
ListSessions(r, userId) ==
  /\ Free(r)
  /\ LET slot == InFlight("listSessions", "start", [userId |-> userId])
         found == {x \in sessions : x.user_id = userId}
     IN  req' = [req EXCEPT ![r] =
                   IF \E x \in found : ParseFailed(MessagesOf(x.id))
                     THEN Failed(slot, 500, "Failed to fetch sessions")
                     ELSE Replied(slot, 200,
                            [sessions |->
                               {[session |-> x, messages |-> MessagesOf(x.id)] :
                                  x \in found}])]
  /\ UNCHANGED <<users, sessions, messages, saved, loginAttempts, now, calls, idCtr, compared>>

(***************************************************************************)
(* Initial state and specifications.                                       *)
(***************************************************************************)
Init ==
  /\ users = {}
  /\ sessions = {}
  /\ messages = {}
  /\ saved = {}
  /\ loginAttempts = [i \in Identifiers |-> NoAttempt]
  /\ now = 0
  /\ req = [r \in Reqs |-> Idle]
  /\ calls = << >>
  /\ idCtr = 0
  /\ compared = << >>

\* The rate limiter alone.
NextRate ==
  \/ Tick(MaxTicks)
  \/ \E identifier \in RateIdentifiers : RateCall(identifier)

SpecRate == Init /\ [][NextRate]_vars

\* Signup requests handled one after another.
NextSignup ==
  \/ \E b \in SignupBodies : SignupStart(1, b)
  \/ SignupCheckUsername(1)
  \/ SignupCheckEmail(1)
  \/ SignupInsert(1, Tokens)

SpecSignup == Init /\ [][NextSignup]_vars

\* Signup requests handled concurrently: their store accesses interleave.
NextConc ==
  \E r \in Reqs :
    \/ \E b \in ValidSignupBodies : SignupStart(r, b)
    \/ SignupCheckUsername(r)
    \/ SignupCheckEmail(r)
    \/ SignupInsert(r, Tokens)

SpecConc == Init /\ [][NextConc]_vars

\* Login requests handled one after another, with users signed up between them.
LoginSignupBodies ==
  {[username |-> sAlice, password |-> sValid123, name |-> sName, email |-> sMailA]}

NextLogin ==
  \/ Tick(MaxTicks)
  \/ \E b \in LoginSignupBodies : SignupStart(1, b)
  \/ SignupCheckUsername(1)
  \/ SignupCheckEmail(1)
  \/ SignupInsert(1, Tokens)
  \/ \E b \in LoginBodies : LoginStart(1, b)
  \/ LoginFind(1)
  \/ LoginCompare(1, FALSE)
  \/ LoginUpdate(1)

SpecLogin == Init /\ [][NextLogin]_vars

\* History requests handled one after another, with a user signed up at some
\* point.
NextHist ==
  \/ Tick(MaxHistTicks)
  \/ \E b \in LoginSignupBodies : SignupStart(1, b)
  \/ SignupCheckUsername(1)
  \/ SignupCheckEmail(1)
  \/ SignupInsert(1, {"t1"})
  \/ \E userId \in UserIdInputs \cup {0}, title \in SessionTitles :
       CreateSession(1, userId, title)
  \/ \E b \in MessageBodies : SaveMessage(1, b)
  \/ \E sessionId \in SessionIdInputs : DeleteSession(1, sessionId)
  \/ \E userId \in UserIdInputs : ClearUserData(1, userId)
  \/ \E sessionId \in SessionIdInputs : GetSession(1, sessionId)
  \/ \E userId \in UserIdInputs : ListSessions(1, userId)

SpecHist == Init /\ [][NextHist]_vars

\* Logins under two spellings of one stored username, every bcrypt.compare
\* logged. The clock stays within one window of the first attempt.
MaxSpellTicks == 1

SpellBodies == [username : {sAlice, salice}, password : {sValid123, sOther456}]

NextSpell ==
  \/ Tick(MaxSpellTicks)
  \/ \E b \in LoginSignupBodies : SignupStart(1, b)
  \/ SignupCheckUsername(1)
  \/ SignupCheckEmail(1)
  \/ SignupInsert(1, {"t1"})
  \/ \E b \in SpellBodies : LoginStart(1, b)
  \/ LoginFind(1)
  \/ LoginCompare(1, TRUE)
  \/ LoginUpdate(1)

SpecSpell == Init /\ [][NextSpell]_vars

(***************************************************************************)
(* Vocabulary of the properties.                                           *)
(***************************************************************************)
\* Two characters that are the same letter in either case, or the same character.
SameIgnoringCase(c, d) ==
  \/ c = d
  \/ \E i \in 1..26 : {c, d} = {UpperSeq[i], LowerSeq[i]}

\* Case-insensitive equality of two strings.
EqualIgnoringCase(a, b) ==
  /\ Len(a) = Len(b)
  /\ \A i \in 1..Len(a) : SameIgnoringCase(a[i], b[i])

\* Slot r holds the response to a request of operation op.
Answered(r, op) ==
  /\ req[r].op = op
  /\ req[r].pc = "done"

(***************************************************************************)
(* C1: for one identifier, a call of checkRateLimit is allowed exactly     *)
(* when it is among the first 5 calls of its 15-minute window, the window  *)
(* starting at the first call made with no window open or more than 15     *)
(* minutes after the start of the one before; and the first call of a      *)
(* window leaves the entry {count 1, timestamp = time of that call}.       *)
(***************************************************************************)
RECURSIVE WindowAt(_, _)
\* The window of identifier after the first k logged calls: its start and the
\* number of calls made in it so far (n = 0: no call yet).
WindowAt(identifier, k) ==
  IF k = 0 THEN [start |-> 0, n |-> 0]
  ELSE LET w == WindowAt(identifier, k - 1)
           c == calls[k]
       IN  IF c.id # identifier THEN w
           ELSE IF w.n = 0 \/ c.t - w.start > 15 * 60 * 1000
             THEN [start |-> c.t, n |-> 1]
           ELSE [start |-> w.start, n |-> w.n + 1]

C1_FixedWindow ==
  /\ \A k \in 1..Len(calls) :
       calls[k].allowed <=> (WindowAt(calls[k].id, k).n <= 5)
  /\ Len(calls) > 0 =>
       LET c == calls[Len(calls)] IN
         WindowAt(c.id, Len(calls)).n = 1 =>
           loginAttempts[c.id] = [count |-> 1, timestamp |-> c.t]

\* Five calls allowed, a sixth denied exactly 15 minutes after the window's
\* start, and a later call allowed once more than 15 minutes have passed.
C1_Witness ==
  \E k \in 1..Len(calls) :
    /\ ~calls[k].allowed
    /\ WindowAt(calls[k].id, k).n = 6
    /\ calls[k].t - WindowAt(calls[k].id, k).start = 15 * 60 * 1000
    /\ \E j \in (k + 1)..Len(calls) :
         /\ calls[j].id = calls[k].id
         /\ calls[j].allowed
         /\ WindowAt(calls[j].id, j).n = 1
         /\ loginAttempts[calls[j].id].count = 1

(***************************************************************************)
(* C2: with signups handled one after another, a well-formed signup (one   *)
(* that passes the checks of its fields) whose username or email equals a  *)
(* stored user's, letter case ignored, is answered 409; and no signup      *)
(* whose username or email equals a stored one adds a user row.            *)
(***************************************************************************)
\* Some stored user has the username or the email of body b, case ignored.
DuplicateOf(us, b) ==
  \E u \in us :
    \/ EqualIgnoringCase(u.username, b.username)
    \/ EqualIgnoringCase(u.email, b.email)

C2_SequentialConflict ==
  (Answered(1, "signup") /\ DuplicateOf(req[1].pre, req[1].in)) =>
    /\ users = req[1].pre
    /\ signupValidation(req[1].in) = "" => req[1].status = 409

\* "Alice" is stored and a signup as "alice" (another spelling) got 409.
C2_Witness ==
  /\ Answered(1, "signup")
  /\ req[1].status = 409
  /\ \E u \in users :
       /\ u.username # req[1].in.username
       /\ EqualIgnoringCase(u.username, req[1].in.username)
       /\ ~EqualIgnoringCase(u.email, req[1].in.email)

(***************************************************************************)
(* C3: no two user rows have usernames equal with letter case ignored, nor *)
(* emails equal with letter case ignored, also when the store accesses of  *)
(* concurrently handled signups interleave.                                *)
(***************************************************************************)
C3_CaseInsensitiveUnique ==
  \A u \in users, v \in users :
    u # v =>
      /\ ~EqualIgnoringCase(u.username, v.username)
      /\ ~EqualIgnoringCase(u.email, v.email)

(***************************************************************************)
(* C7: the response of a signup is that of the first failing check in the  *)
(* order: a field missing, email shape, username length >= 3, username     *)
(* characters, password length >= 8, password has a lowercase and an       *)
(* uppercase letter, password has a digit, username exists, email exists;  *)
(* a failing signup creates no user, one that passes all creates exactly   *)
(* one user and is answered 201.                                           *)
(***************************************************************************)
\* The checks in the order of the claim: whether body b fails each, against
\* the stored users us.
ChecksFailed(us, b) ==
  << Len(b.username) = 0 \/ Len(b.password) = 0 \/ Len(b.name) = 0 \/ Len(b.email) = 0,
     ~emailRegex(b.email),
     ~(Len(b.username) >= 3),
     \E i \in 1..Len(b.username) :
       b.username[i] \notin (LowerChars \cup UpperChars \cup DigitChars \cup {"_", "-"}),
     ~(Len(b.password) >= 8),
     ~(HasLower(b.password) /\ HasUpper(b.password)),
     ~HasDigit(b.password),
     \E u \in us : EqualIgnoringCase(u.username, b.username),
     \E u \in us : EqualIgnoringCase(u.email, b.email) >>

\* The answer the handler gives for each check.
CheckAnswers ==
  << [status |-> 400, error |-> "Missing required fields"],
     [status |-> 400, error |-> "Invalid email format"],
     [status |-> 400, error |-> "Username must be at least 3 characters"],
     [status |-> 400,
      error |-> "Username can only contain letters, numbers, underscores, and hyphens"],
     [status |-> 400, error |-> "Password must be at least 8 characters"],
     [status |-> 400,
      error |-> "Password must contain uppercase and lowercase letters"],
     [status |-> 400, error |-> "Password must contain at least one number"],
     [status |-> 409, error |-> "Username already exists"],
     [status |-> 409, error |-> "Email already registered"] >>

FailingChecks(us, b) == {i \in 1..9 : ChecksFailed(us, b)[i]}

C7_FirstFailingCheck ==
  Answered(1, "signup") =>
    LET failing == FailingChecks(req[1].pre, req[1].in) IN
      IF failing # {}
        THEN LET first == CHOOSE i \in failing : \A j \in failing : i <= j IN
               /\ req[1].status = CheckAnswers[first].status
               /\ req[1].error = CheckAnswers[first].error
               /\ users = req[1].pre
        ELSE /\ req[1].status = 201
             /\ req[1].pre \subseteq users
             /\ Cardinality(users) = Cardinality(req[1].pre) + 1
             /\ \E u \in users \ req[1].pre :
                  /\ u.username = req[1].in.username
                  /\ u.email = req[1].in.email

\* A user was created with password "Valid123", and a later signup that fails
\* three checks (username too short, password without a digit, username
\* characters aside) got the answer of the earliest of them.
C7_Witness ==
  /\ \E u \in users : u.password_hash = bcryptHash(sValid123)
  /\ Answered(1, "signup")
  /\ Cardinality(FailingChecks(req[1].pre, req[1].in)) >= 3
  /\ req[1].in.password = sNoDigitsHere
  /\ req[1].error = "Username must be at least 3 characters"

(***************************************************************************)
(* C6 as claimed: in every state of the store and of the rate limiter, a   *)
(* login with an existing username and a wrong password, and a login with  *)
(* a username that matches no user (username and password both given),     *)
(* are answered alike with 401 'Invalid credentials', and change no user   *)
(* row.                                                                    *)
(***************************************************************************)
\* The users that the username of body b names, letter case ignored.
Named(us, b) == {u \in us : EqualIgnoringCase(u.username, b.username)}

\* Body b gives a username and a password, and either names no user or gives
\* a password that is not the one of the user it names.
WrongOrUnknown(us, b) ==
  /\ Len(b.username) > 0
  /\ Len(b.password) > 0
  /\ \A u \in Named(us, b) : u.password_hash # bcryptHash(b.password)

C6_SameAnswerAnyLimiter ==
  (Answered(1, "login") /\ WrongOrUnknown(req[1].pre, req[1].in)) =>
    /\ req[1].status = 401
    /\ req[1].error = "Invalid credentials"
    /\ users = req[1].pre

(***************************************************************************)
(* C6 as amended: such a login is answered 401 'Invalid credentials' in    *)
(* both cases unless the rate limiter refuses it, which it does (429) only *)
(* when it has counted 5 attempts under that raw username; in every case   *)
(* no user row changes.                                                    *)
(***************************************************************************)
C6_SameAnswerWhenAdmitted ==
  (Answered(1, "login") /\ WrongOrUnknown(req[1].pre, req[1].in)) =>
    /\ users = req[1].pre
    /\ \/ /\ req[1].status = 401
          /\ req[1].error = "Invalid credentials"
       \/ /\ req[1].status = 429
          /\ loginAttempts[req[1].in.username].count >= 5

\* A wrong password for the stored user was answered 401 after a login under
\* an unknown username had been answered.
C6_Witness ==
  /\ Answered(1, "login")
  /\ req[1].status = 401
  /\ Named(users, req[1].in) # {}
  /\ WrongOrUnknown(users, req[1].in)
  /\ loginAttempts[sbob] # NoAttempt

(***************************************************************************)
(* C10: a login that the rate limiter denies is answered 429 by a step     *)
(* that neither reads nor writes the users table nor verifies a password,  *)
(* also when its credentials are right; a login that lacks the username or *)
(* the password is answered 400 and leaves the rate limiter's map as it    *)
(* was.                                                                    *)
(***************************************************************************)
\* Slot r takes a new login request in this step.
LoginArrives(r) ==
  /\ req[r].pc \in {"idle", "done"}
  /\ req'[r] # req[r]
  /\ req'[r].op = "login"

\* The limiter holds 5 attempts of this identifier in a window still open.
LimiterFull(identifier) ==
  /\ loginAttempts[identifier] # NoAttempt
  /\ loginAttempts[identifier].count >= 5
  /\ now - loginAttempts[identifier].timestamp <= 15 * 60 * 1000

C10_LimitBeforeStore ==
  [][LoginArrives(1) =>
       LET b == req'[1].in IN
         /\ (Len(b.username) = 0 \/ Len(b.password) = 0) =>
              /\ req'[1].status = 400
              /\ req'[1].pc = "done"
              /\ loginAttempts' = loginAttempts
         /\ (Len(b.username) > 0 /\ Len(b.password) > 0 /\ LimiterFull(b.username)) =>
              /\ req'[1].status = 429
              /\ req'[1].pc = "done"
              /\ req'[1].reads = 0
              /\ ~req'[1].verified
              /\ users' = users
         /\ req'[1].status = 429 => req'[1].reads = 0 /\ ~req'[1].verified]_vars

\* A login with the stored user's own password was answered 429.
C10_Witness ==
  /\ Answered(1, "login")
  /\ req[1].status = 429
  /\ \E u \in Named(users, req[1].in) : bcryptCompare(req[1].in.password, u.password_hash)

(***************************************************************************)
(* C4: once deleteSession(sessionId) has succeeded the store holds no      *)
(* message of that session; once clearUserData(userId) has succeeded it    *)
(* holds no session of that user and no message of a session it deleted.   *)
(***************************************************************************)
C4_DeleteCascades ==
  /\ (Answered(1, "deleteSession") /\ req[1].status = 200) =>
       \A m \in messages : m.session_id # req[1].in.sessionId
  /\ (Answered(1, "clearUserData") /\ req[1].status = 200) =>
       /\ \A x \in sessions : x.user_id # req[1].in.userId
       /\ \A m \in messages : m.session_id \notin req[1].out.deleted

(***************************************************************************)
(* C5: the store never holds two message rows with one identifier; a       *)
(* saveMessage under an identifier already in use is answered 201, leaves  *)
(* the number of rows and every other row as they were, and leaves under   *)
(* that identifier the role, content, image, optional fields and           *)
(* timestamp of the request; a listing of a session shows each of its      *)
(* messages exactly once.                                                  *)
(***************************************************************************)
\* No two rows of the table ms share an identifier.
OneRowPerId(ms) == \A m \in ms, n \in ms : m.id = n.id => m = n

\* Slot 1 takes, in this step, a complete saveMessage request whose
\* messageId some row already has.
SaveReusesId ==
  /\ req'[1] # req[1]
  /\ req'[1].op = "saveMessage"
  /\ req'[1].in.sessionId # 0
  /\ req'[1].in.role # ""
  /\ req'[1].in.content # ""
  /\ \E m \in messages : m.id = req'[1].in.messageId

\* The listing in slot 1 shows every message row of its session once, and
\* nothing else.
ListingShowsEachOnce ==
  (Answered(1, "getSession") /\ req[1].status = 200) =>
    /\ \A m \in messages :
         m.session_id = req[1].in.sessionId =>
           Cardinality({x \in req[1].out.messages : x.id = m.id}) = 1
    /\ \A x \in req[1].out.messages : \E m \in messages : m.id = x.id

C5_UpsertById ==
  [][/\ OneRowPerId(messages')
     /\ ListingShowsEachOnce'
     /\ SaveReusesId =>
          LET b == req'[1].in IN
            /\ req'[1].status = 201
            /\ Cardinality(messages') = Cardinality(messages)
            /\ {m \in messages' : m.id # b.messageId}
                 = {m \in messages : m.id # b.messageId}
            /\ \E m \in messages' :
                 /\ m.id = b.messageId
                 /\ m.role = b.role
                 /\ m.content = b.content
                 /\ m.image_url = b.imageUrl
                 /\ m.timestamp = now
                 /\ IF b.extractedSymptoms = Absent
                      THEN m.extracted_symptoms = SqlNull
                      ELSE JSONparse(m.extracted_symptoms) = b.extractedSymptoms
                 /\ IF b.groundingSources = Absent
                      THEN m.grounding_sources = SqlNull
                      ELSE JSONparse(m.grounding_sources) = b.groundingSources
                 /\ IF b.analysisResults = Absent
                      THEN m.analysis_results = SqlNull
                      ELSE JSONparse(m.analysis_results) = b.analysisResults]_vars

\* A message identifier first saved under one session was saved again, with
\* another content, in a request naming another session: the answer is 201
\* and the one row under the identifier carries the new content.
C5_Witness ==
  /\ Answered(1, "saveMessage")
  /\ req[1].status = 201
  /\ req[1].in.messageId = ClientMessageId
  /\ req[1].in.content = "edit"
  /\ \E m \in messages :
       /\ m.id = ClientMessageId
       /\ m.content = "edit"
       /\ m.session_id # req[1].in.sessionId
       /\ m.timestamp > 0

(***************************************************************************)
(* C8: every message that getSession or listSessions returns carries, in   *)
(* each of the three optional fields, the array or object its last save    *)
(* gave for that field, as a value and not as JSON text, and nothing when  *)
(* the save omitted the field; and both return every message row of the    *)
(* sessions they list.                                                     *)
(***************************************************************************)
\* v is what a save that gave g must come back as: g itself when g is an array
\* or an object, nothing when g was omitted.
ComesBack(g, v) ==
  /\ g.t \in {"arr", "obj"} => v = g
  /\ g = Absent => v = Absent

\* The returned messages rows are those of session sessionId, each with the
\* values of its last save.
ReturnedAsSaved(rows, sessionId) ==
  /\ {x.id : x \in rows} = {m.id : m \in {n \in messages : n.session_id = sessionId}}
  /\ \A x \in rows :
       \E g \in saved :
         /\ g.id = x.id
         /\ ComesBack(g.extracted_symptoms, x.extracted_symptoms)
         /\ ComesBack(g.grounding_sources, x.grounding_sources)
         /\ ComesBack(g.analysis_results, x.analysis_results)

C8_JsonRoundTrip ==
  /\ Answered(1, "getSession") =>
       /\ req[1].status \in {200, 404}
       /\ req[1].status = 200 =>
            ReturnedAsSaved(req[1].out.messages, req[1].in.sessionId)
  /\ Answered(1, "listSessions") =>
       /\ req[1].status = 200
       /\ \A e \in req[1].out.sessions : ReturnedAsSaved(e.messages, e.session.id)

\* listSessions returned a message saved with an array that needs escaping,
\* an object and an omitted field.
C8_Witness ==
  /\ Answered(1, "listSessions")
  /\ \E e \in req[1].out.sessions :
       \E x \in e.messages :
         /\ x.extracted_symptoms = Absent
         /\ x.grounding_sources = JArr(<<sQuoteComma>>)
         /\ x.analysis_results = JObj(<<sK, sV>>)

(***************************************************************************)
(* C9: every row of chat_sessions has the identifier of an existing user   *)
(* row as its user_id.                                                     *)
(***************************************************************************)
C9_SessionsHaveUsers ==
  \A x \in sessions : \E u \in users : u.id = x.user_id

(***************************************************************************)
(* C11: once saveMessage has answered 201, on the INSERT path and on the   *)
(* UPDATE path alike, the row stored under the returned identifier carries *)
(* the save time as its timestamp, and the session that row belongs to     *)
(* carries the same time as its updated_at.                                *)
(***************************************************************************)
\* Slot 1 holds the 201 answer of a saveMessage.
SaveAnswered == Answered(1, "saveMessage") /\ req[1].status = 201

\* The rows stored under the identifier that the answer in slot 1 returned.
StoredUnderReturnedId == {m \in messages : m.id = req[1].out.message.id}

C11_ParentSessionBumped ==
  SaveAnswered =>
    \A m \in StoredUnderReturnedId :
      /\ m.timestamp = req[1].out.message.timestamp
      /\ \A x \in sessions :
           x.id = m.session_id => x.updated_at = m.timestamp

(***************************************************************************)
(* C12: once saveMessage has answered 201, the row stored under the        *)
(* returned identifier has the session_id, role, content and timestamp     *)
(* that the returned message object gives, also when the identifier was    *)
(* first saved under another session.                                      *)
(***************************************************************************)
C12_ResponseIsStoredRow ==
  SaveAnswered =>
    /\ StoredUnderReturnedId # {}
    /\ \A m \in StoredUnderReturnedId :
         /\ m.session_id = req[1].out.message.session_id
         /\ m.role = req[1].out.message.role
         /\ m.content = req[1].out.message.content
         /\ m.timestamp = req[1].out.message.timestamp

(***************************************************************************)
(* C13: of the logins that reach bcrypt.compare against one account, under *)
(* whatever spelling of its username, at most RATE_LIMIT_ATTEMPTS fall     *)
(* within any span of RATE_LIMIT_WINDOW.                                   *)
(***************************************************************************)
\* The logged comparisons against the account of entry i, from its time on
\* and less than one window later.
ComparedWithin(i) ==
  {j \in DOMAIN compared :
     /\ compared[j].id = compared[i].id
     /\ compared[j].at >= compared[i].at
     /\ compared[j].at - compared[i].at < RATE_LIMIT_WINDOW}

C13_FiveComparesPerAccount ==
  \A i \in DOMAIN compared : Cardinality(ComparedWithin(i)) <= RATE_LIMIT_ATTEMPTS

====
